---- MODULE Spec2Model ----
(***************************************************************************)
(* Model of the PowerQueen BMS reader: BatteryInfo (src/battery.py) and    *)
(* the BLE session Request.bulk_send (src/request.py).                     *)
(*                                                                         *)
(* Encodings used for Python values:                                       *)
(*   bytearray        sequence of 0..255 (Python index k is TLA+ k+1)      *)
(*   None (number)    NoneInt                                              *)
(*   None (list)      NoneSeq                                              *)
(*   None (str)       "None"                                               *)
(*   hex string       sequence of hex digit values 0..15                   *)
(*   "a.b.c", "y-m-d" the string                                           *)
(*   cell voltage     raw millivolts (the code stores raw / 1000)          *)
(*   batteryPack      function 1..16 -> mV, 0 = key absent (the code never *)
(*                    stores a zero reading)                               *)
(*   current, Ah, W   hundredths (the code rounds to 2 decimals)           *)
(*   command string   sequence of tokens, a token the values of its digits *)
(*                                                                         *)
(* Specifications:                                                         *)
(*   Spec        read_bms, get_json and set_debug on one BatteryInfo       *)
(*   LiveSpec    reads only, with the steps of a read in progress fair     *)
(*   ParserSpec  the decorated parsers called directly on a new object     *)
(***************************************************************************)
EXTENDS Integers, Sequences, FiniteSets, TLC

\* ------------------------------------------------------------------------
\* Bounds of the model
\* ------------------------------------------------------------------------
\* read_bms calls in a run
MaxReads == 2
\* what the environment does in a run: notifications the device sends plus
\* transport calls that fail or are cancelled
MaxEvents == 2
\* direct calls of a parser on one BatteryInfo
MaxParses == 1

\* ------------------------------------------------------------------------
\* Program constants
\* ------------------------------------------------------------------------
ERROR_GENERIC == 1
ERROR_TIMEOUT == 2
ERROR_BLEAK == 4
ERROR_CHECKSUM == 6

NoneInt == -999999
NoneSeq == <<-1>>
NoAttr == -1

\* ------------------------------------------------------------------------
\* Byte helpers
\* ------------------------------------------------------------------------
Min(a, b) == IF a < b THEN a ELSE b

RECURSIVE Pow(_, _)
Pow(b, e) == IF e = 0 THEN 1 ELSE b * Pow(b, e - 1)

\* Python slice data[a:b] (0-based, end exclusive, clipped to the length)
Slice(data, a, b) == SubSeq(data, a + 1, Min(b, Len(data)))

\* Python slice data[a:]
SliceFrom(data, a) == SubSeq(data, a + 1, Len(data))

\* int.from_bytes(s[::-1], byteorder="big"): s read least significant first
\* (values below 2^31)
RECURSIVE FromBytesRev(_)
FromBytesRev(s) ==
    IF Len(s) = 0 THEN 0 ELSE s[1] + 256 * FromBytesRev(Tail(s))

\* int.from_bytes(s[::-1], byteorder="big", signed=True)
FromBytesRevSigned(s) ==
    IF Len(s) = 0 THEN 0
    ELSE LET top == s[Len(s)]
             low == FromBytesRev(SubSeq(s, 1, Len(s) - 1))
         IN low + Pow(256, Len(s) - 1) * (IF top >= 128 THEN top - 256 ELSE top)

\* bytes.hex(): two hex digits per byte, high digit first
RECURSIVE Hex(_)
Hex(s) ==
    IF Len(s) = 0 THEN <<>>
    ELSE <<s[1] \div 16, s[1] % 16>> \o Hex(Tail(s))

RECURSIVE Reverse(_)
Reverse(s) ==
    IF Len(s) = 0 THEN <<>> ELSE Append(Reverse(Tail(s)), s[1])

\* sum(s[lo..hi]), by halves
RECURSIVE SumRange(_, _, _)
SumRange(s, lo, hi) ==
    IF lo > hi THEN 0
    ELSE IF lo = hi THEN s[lo]
    ELSE LET mid == (lo + hi) \div 2
         IN SumRange(s, lo, mid) + SumRange(s, mid + 1, hi)

SumSeq(s) == SumRange(s, 1, Len(s))

\* round(n / d) for integers n and d > 0, ties to even.  Python rounds the
\* binary float, so an exact tie may fall either way there; the responses
\* of this model have no field on a tie.
RoundDiv(n, d) ==
    LET q == n \div d
        r == n % d
    IN IF 2 * r < d THEN q
       ELSE IF 2 * r > d THEN q + 1
       ELSE IF q % 2 = 0 THEN q ELSE q + 1

\* Variant of crc_sum: the mask keeps seven bits.
crc_sum_SevenBits(raw_data) == SumSeq(raw_data) % 128

\* BatteryInfo.crc_sum: sum(raw_data) & 0xFF
crc_sum(raw_data) == SumSeq(raw_data) % 256

\* ------------------------------------------------------------------------
\* BatteryInfo: decoded fields
\* ------------------------------------------------------------------------
\* BatteryInfo.__init__: every field None, batteryPack {}, error_code 0.
\* "error" is the attribute the checksum wrapper creates; NoAttr = not set.
InitBat ==
    [packVoltage |-> NoneInt, voltage |-> NoneInt,
     batteryPack |-> [c \in 1..16 |-> 0],
     current |-> NoneInt, watt |-> NoneInt,
     remainAh |-> NoneInt, factoryAh |-> NoneInt,
     cellTemperature |-> NoneInt, mosfetTemperature |-> NoneInt,
     heat |-> NoneSeq, protectState |-> NoneSeq, failureState |-> NoneSeq,
     equilibriumState |-> NoneInt, batteryState |-> NoneInt,
     SOC |-> NoneInt, SOH |-> NoneInt,
     dischargeSwitchState |-> NoneInt,
     dischargesCount |-> NoneInt, dischargesAHCount |-> NoneInt,
     firmwareVersion |-> "None", manfactureDate |-> "None",
     hardwareVersion |-> NoneSeq,
     battery_status |-> "None", balance_status |-> "None",
     cell_status |-> "None", bms_status |-> "None", heat_status |-> "None",
     error_code |-> 0, error_message |-> "None",
     error |-> NoAttr]

\* Variant of get_battery_status: the sign of the current is looked at
\* after the full-charge test and overwrites its result.
get_battery_status_CurrentWins(b) ==
    LET status == IF b.SOC >= 100 \/ b.batteryState = 4
                  THEN "Full Charge" ELSE ""
    IN IF b.current = 0 THEN "Standby"
       ELSE IF b.current > 0 THEN "Charging"
       ELSE IF b.current < 0 THEN "Discharging"
       ELSE status

\* BatteryInfo.get_battery_status
get_battery_status(b) ==
    LET status == IF b.current = 0 THEN "Standby"
                  ELSE IF b.current > 0 THEN "Charging"
                  ELSE "Discharging"
    IN IF b.SOC >= 100 \/ b.batteryState = 4 THEN "Full Charge" ELSE status

\* Lines 570-579: the loop over the 16 two-byte cell readings.  A reading
\* whose second byte is missing raises IndexError; the cells before it have
\* been stored.  Keys are never removed from batteryPack.
CellRaw(batPack, c) == batPack[2 * c - 1] + 256 * batPack[2 * c]

CellLoop(old, batPack) ==
    [c \in 1..16 |->
        IF 2 * c <= Len(batPack) /\ CellRaw(batPack, c) # 0
        THEN CellRaw(batPack, c) ELSE old[c]]

\* BatteryInfo.parse_battery_info (body, lines 567-654).  The result is the
\* object after the call and the exception the call ended with.
parse_battery_info_body(b, data) ==
    LET batPack == Slice(data, 16, 48)
        current == FromBytesRevSigned(Slice(data, 48, 52))
        volt == FromBytesRev(Slice(data, 12, 16))
        b1 == [b EXCEPT !.packVoltage = FromBytesRev(Slice(data, 8, 12)),
                        !.voltage = volt,
                        !.batteryPack = CellLoop(b.batteryPack, batPack)]
        heat == Hex(Reverse(Slice(data, 68, 72)))
        b2 == [b1 EXCEPT !.current = RoundDiv(current, 10),
                         !.watt = RoundDiv(RoundDiv(volt * current, 1000), 10),
                         !.remainAh = FromBytesRev(Slice(data, 62, 64)),
                         !.factoryAh = FromBytesRev(Slice(data, 64, 66)),
                         !.cellTemperature =
                              FromBytesRevSigned(Slice(data, 52, 54)),
                         !.mosfetTemperature =
                              FromBytesRevSigned(Slice(data, 54, 56)),
                         !.heat = heat]
        failureState == Reverse(Slice(data, 80, 84))
        b3 == [b2 EXCEPT !.dischargeSwitchState =
                              IF heat[7] >= 8 THEN 0 ELSE 1,
                         !.protectState = Hex(Reverse(Slice(data, 76, 80))),
                         !.failureState = failureState,
                         !.equilibriumState =
                              FromBytesRev(Slice(data, 84, 88)),
                         !.batteryState = FromBytesRev(Slice(data, 88, 90)),
                         !.SOC = FromBytesRev(Slice(data, 90, 92)),
                         !.SOH = FromBytesRev(Slice(data, 92, 96)),
                         !.dischargesCount =
                              FromBytesRev(Slice(data, 96, 100)),
                         !.dischargesAHCount =
                              FromBytesRev(Slice(data, 100, 104))]
        b4 == [b3 EXCEPT !.battery_status = get_battery_status(b3),
                         !.balance_status =
                              IF b3.equilibriumState > 0
                              THEN "balancing" ELSE "well-balanced"]
        fault == failureState[1] > 0 \/ failureState[2] > 0
        b5 == [b4 EXCEPT !.cell_status =
                              IF fault THEN "fault" ELSE "optimal"]
        b6 == [b5 EXCEPT !.heat_status =
                              IF heat[8] = 2 THEN "on" ELSE "off"]
    IN  IF Len(batPack) % 2 = 1
            THEN [bat |-> b1, exc |-> "IndexError"]
        ELSE IF Len(heat) < 7
            THEN [bat |-> b2, exc |-> "IndexError"]
        ELSE IF heat[7] >= 10
            THEN [bat |-> b2, exc |-> "ValueError"]
        ELSE IF Len(failureState) = 0
            THEN [bat |-> b4, exc |-> "IndexError"]
        ELSE IF failureState[1] = 0 /\ Len(failureState) < 2
            THEN [bat |-> b4, exc |-> "IndexError"]
        ELSE IF heat[8] >= 10
            THEN [bat |-> b5, exc |-> "ValueError"]
        ELSE [bat |-> b6, exc |-> "none"]

\* Lines 718-722: every second byte of data[8:], printable ASCII only
RECURSIVE HardwareCharsRange(_, _, _)
HardwareCharsRange(s, lo, hi) ==
    IF lo > hi THEN <<>>
    ELSE IF lo = hi
    THEN (IF lo % 2 = 1 /\ 32 <= s[lo] /\ s[lo] <= 126 THEN <<s[lo]>> ELSE <<>>)
    ELSE LET mid == (lo + hi) \div 2
         IN HardwareCharsRange(s, lo, mid) \o HardwareCharsRange(s, mid + 1, hi)

HardwareChars(s) == HardwareCharsRange(s, 1, Len(s))

\* f"{n}" for an int n >= 0: the decimal digits, no sign, no padding
DecimalDigits == <<"0", "1", "2", "3", "4", "5", "6", "7", "8", "9">>

RECURSIVE FormatInt(_)
FormatInt(n) ==
    IF n < 10 THEN DecimalDigits[n + 1]
    ELSE FormatInt(n \div 10) \o DecimalDigits[(n % 10) + 1]

\* Variant of parse_version: month and day of manfactureDate are padded to
\* two digits.
parse_version_body_Padded(b, data) ==
    LET FormatIntPadded(n) ==
            IF n < 10 THEN "0" \o FormatInt(n) ELSE FormatInt(n)
        start == SliceFrom(data, 8)
        b1 == [b EXCEPT !.firmwareVersion =
                   FormatInt(FromBytesRev(Slice(start, 0, 2)))
                   \o "." \o FormatInt(FromBytesRev(Slice(start, 2, 4)))
                   \o "." \o FormatInt(FromBytesRev(Slice(start, 4, 6)))]
        b2 == [b1 EXCEPT !.manfactureDate =
                   FormatInt(FromBytesRev(Slice(start, 6, 8)))
                   \o "-" \o FormatIntPadded(start[9])
                   \o "-" \o FormatIntPadded(start[10])]
        b3 == [b2 EXCEPT !.hardwareVersion = HardwareChars(start)]
    IN  IF Len(start) < 10
            THEN [bat |-> b1, exc |-> "IndexError"]
        ELSE [bat |-> b3, exc |-> "none"]

\* BatteryInfo.parse_version (body, lines 706-724)
parse_version_body(b, data) ==
    LET start == SliceFrom(data, 8)
        b1 == [b EXCEPT !.firmwareVersion =
                   FormatInt(FromBytesRev(Slice(start, 0, 2)))
                   \o "." \o FormatInt(FromBytesRev(Slice(start, 2, 4)))
                   \o "." \o FormatInt(FromBytesRev(Slice(start, 4, 6)))]
        b2 == [b1 EXCEPT !.manfactureDate =
                   FormatInt(FromBytesRev(Slice(start, 6, 8)))
                   \o "-" \o FormatInt(start[9])
                   \o "-" \o FormatInt(start[10])]
        b3 == [b2 EXCEPT !.hardwareVersion = HardwareChars(start)]
    IN  IF Len(start) < 10
            THEN [bat |-> b1, exc |-> "IndexError"]
        ELSE [bat |-> b3, exc |-> "none"]

\* BatteryInfo._check_crc.wrapper (lines 303-316): on a mismatch the
\* wrapper assigns the attribute "error" (not error_code) and
\* error_message, then always runs the parser.
check_crc_mark(b, raw_data) ==
    LET crc_packet == IF Len(raw_data) = 0 THEN 0 ELSE raw_data[Len(raw_data)]
        data_crc == crc_sum(SubSeq(raw_data, 1, Len(raw_data) - 1))
    IN IF crc_packet # data_crc
       THEN [b EXCEPT !.error = ERROR_CHECKSUM,
                      !.error_message = "Error: checksum missmatch"]
       ELSE b

\* Variant of parse_battery_info: on a checksum mismatch the wrapper marks
\* the error and returns without calling the parser.
parse_battery_info_SkipsOnMismatch(b, data) ==
    IF check_crc_mark(b, data) # b
    THEN [bat |-> check_crc_mark(b, data), exc |-> "none"]
    ELSE parse_battery_info_body(b, data)

parse_battery_info(b, data) ==
    parse_battery_info_body(check_crc_mark(b, data), data)

\* Variant of parse_version: the pack voltages of an earlier response are
\* cleared before the version is decoded.
parse_version_ClearsVoltages(b, data) ==
    parse_version_body(
        check_crc_mark([b EXCEPT !.packVoltage = NoneInt,
                                 !.voltage = NoneInt], data), data)

parse_version(b, data) ==
    parse_version_body(check_crc_mark(b, data), data)

\* The parser a command is paired with in read_bms (lines 405-410)
ApplyParser(name, b, data) ==
    IF name = "parse_version" THEN parse_version(b, data)
    ELSE parse_battery_info(b, data)

\* ------------------------------------------------------------------------
\* Command frames and the responses the device can send
\* ------------------------------------------------------------------------
\* BatteryInfo.pq_commands, in the order read_bms passes them to bulk_send
\* (lines 143-149): a command is a string of two-digit hexadecimal tokens
\* separated by spaces, here the sequence of its tokens, a token being the
\* sequence of the values of its digits ("AA" is <<10, 10>>)
pq_commands ==
    [GET_VERSION |->
        << <<0, 0>>, <<0, 0>>, <<0, 4>>, <<0, 1>>, <<1, 6>>, <<5, 5>>,
           <<10, 10>>, <<1, 10>> >>,
     GET_BATTERY_INFO |->
        << <<0, 0>>, <<0, 0>>, <<0, 4>>, <<0, 1>>, <<1, 3>>, <<5, 5>>,
           <<10, 10>>, <<1, 7>> >>,
     SERIAL_NUMBER |->
        << <<0, 0>>, <<0, 0>>, <<0, 4>>, <<0, 1>>, <<1, 0>>, <<5, 5>>,
           <<10, 10>>, <<1, 4>> >>]

\* int(el, base) of a token
RECURSIVE IntOfDigits(_, _)
IntOfDigits(el, base) ==
    IF Len(el) = 0 THEN 0
    ELSE IntOfDigits(SubSeq(el, 1, Len(el) - 1), base) * base + el[Len(el)]

\* Variant of create_command: the tokens are read in base 10.
create_command_Decimal(command) ==
    [k \in DOMAIN command |-> IntOfDigits(command[k], 10)]

\* Request._create_command (lines 447-450): split at the spaces, int(el, 16)
\* of each token, the values as a bytearray
create_command(command) ==
    [k \in DOMAIN command |-> IntOfDigits(command[k], 16)]

\* the frames bulk_send builds from the commands
GET_VERSION == create_command(pq_commands.GET_VERSION)
GET_BATTERY_INFO == create_command(pq_commands.GET_BATTERY_INFO)
SERIAL_NUMBER == create_command(pq_commands.SERIAL_NUMBER)

\* commands_parsers of read_bms: insertion order of the dict
Commands ==
    << [frame |-> GET_VERSION, parser |-> "parse_version"],
       [frame |-> GET_BATTERY_INFO, parser |-> "parse_battery_info"] >>

NumCommands == Len(Commands)

\* n as k bytes, least significant first (two's complement when n < 0)
RECURSIVE ToBytes(_, _)
ToBytes(n, k) ==
    IF k = 0 THEN <<>>
    ELSE <<n % 256>> \o ToBytes(n \div 256, k - 1)

Zeros(k) == [j \in 1..k |-> 0]

WithChecksum(s) == Append(s, crc_sum(s))

\* the same response with a wrong trailing checksum byte
Corrupt(s) == [s EXCEPT ![Len(s)] = (s[Len(s)] + 1) % 256]

Truncate(s, n) == SubSeq(s, 1, n)

\* A battery-info response: 8 header bytes, the fields at the offsets of
\* parse_battery_info, the checksum trailer (105 bytes).
BatteryResponse(cells, current, soc, state, heatByte) ==
    WithChecksum(
        Zeros(8) \o ToBytes(13280, 4) \o ToBytes(13275, 4)
        \o cells \o ToBytes(current, 4)
        \o ToBytes(21, 2) \o ToBytes(-3, 2) \o Zeros(6)
        \o ToBytes(8500, 2) \o ToBytes(10000, 2) \o Zeros(2)
        \o <<heatByte, 0, 0, 0>> \o Zeros(4)
        \o Zeros(4) \o Zeros(4) \o Zeros(4)
        \o ToBytes(state, 2) \o ToBytes(soc, 2) \o ToBytes(100, 4)
        \o ToBytes(12, 4) \o ToBytes(345, 4))

FourCells ==
    ToBytes(3320, 2) \o ToBytes(3321, 2) \o ToBytes(3322, 2)
    \o ToBytes(3323, 2) \o Zeros(24)

BatOk == BatteryResponse(FourCells, -2500, 85, 2, 0)

\* the same pack reporting three cells: the fourth reading is zero
ThreeCells ==
    ToBytes(3320, 2) \o ToBytes(3321, 2) \o ToBytes(3322, 2) \o Zeros(26)

BatThree == BatteryResponse(ThreeCells, -2500, 85, 2, 0)

\* A version response: firmware 1.4.0, 2023-5-15 (19 bytes)
VersionOk ==
    WithChecksum(
        Zeros(8) \o ToBytes(1, 2) \o ToBytes(4, 2) \o ToBytes(0, 2)
        \o ToBytes(2023, 2) \o <<5, 15>>)

\* What the device may answer to command c (1 = version, 2 = battery info)
DeviceResponses(c) ==
    IF c = 1
    THEN {VersionOk, Corrupt(VersionOk), Truncate(VersionOk, 12)}
    ELSE {BatOk, BatThree, Corrupt(BatOk), Truncate(BatOk, 90)}

\* ------------------------------------------------------------------------
\* Exceptions
\* ------------------------------------------------------------------------
NoExc == [cls |-> "none", msg |-> ""]

\* What an awaited transport call can end with instead of returning: a
\* BleakError, a TimeoutError, any other Exception (with or without a
\* message, as EOFError() of a closed bus), or cancellation of the task.
TransportErrors ==
    { [cls |-> "BleakError", msg |-> "m"],
      [cls |-> "TimeoutError", msg |-> ""],
      [cls |-> "Exception", msg |-> "m"],
      [cls |-> "Exception", msg |-> ""],
      [cls |-> "CancelledError", msg |-> ""] }

Cancelled == [cls |-> "CancelledError", msg |-> ""]

Outcomes == {NoExc} \cup TransportErrors

Internals == {"_logger", "_request", "_debug"}

\* ------------------------------------------------------------------------
\* State
\* ------------------------------------------------------------------------
VARIABLES
    bat,            \* the decoded fields and error fields of BatteryInfo
    internals,      \* which of _logger, _request, _debug are in __dict__
    debug,          \* value of _debug (when present)
    pair,           \* Request.pair
    callback_func,  \* Request.callback_func
    pc,             \* position of read_bms / bulk_send
    i,              \* index of the current command in commands_parsers
    exc,            \* exception propagating out of bulk_send
    connected,      \* the client is connected
    paired,         \* the pair operation succeeded on this connection
    subs,           \* active notification subscriptions
    written,        \* commands whose frame the device has received
    events,         \* notifications delivered and transport calls failed
    calls,          \* transport operations invoked in this read, in order
    delivered,      \* notifications forwarded to a parser in this read
    reads,          \* read_bms calls started
    lastOp,         \* the last public operation that finished
    raised          \* exception class that operation raised, or "none"

vars == <<bat, internals, debug, pair, callback_func, pc, i, exc, connected,
          paired, subs, written, events, calls, delivered, reads, lastOp,
          raised>>

session == <<callback_func, i, exc, connected, paired, subs, written,
             calls, delivered>>

Init ==
    /\ bat = InitBat
    /\ internals = Internals
    /\ debug = FALSE
    /\ pair \in BOOLEAN
    /\ callback_func = "None"
    /\ pc = "idle"
    /\ i = 0
    /\ exc = NoExc
    /\ connected = FALSE
    /\ paired = FALSE
    /\ subs = 0
    /\ written = {}
    /\ events = 0
    /\ calls = <<>>
    /\ delivered = <<>>
    /\ reads = 0
    /\ lastOp = "none"
    /\ raised = "none"

Call(op, c, o) == [op |-> op, cmd |-> c, ok |-> (o = NoExc)]

\* The outcome o of a transport call, within the bound on what the
\* environment does in a run
Outcome(o) ==
    /\ o # NoExc => events < MaxEvents
    /\ events' = IF o = NoExc THEN events ELSE events + 1

\* ------------------------------------------------------------------------
\* BatteryInfo.read_bms and Request.bulk_send, one action per await
\* ------------------------------------------------------------------------
\* read_bms, line 402-403: evaluating self._request raises AttributeError
\* when get_json has removed it; otherwise bulk_send starts.
ReadBms ==
    /\ pc = "idle"
    /\ reads < MaxReads
    /\ reads' = reads + 1
    /\ i' = 0
    /\ connected' = FALSE
    /\ paired' = FALSE
    /\ subs' = 0
    /\ written' = {}
    /\ calls' = <<>>
    /\ delivered' = <<>>
    /\ IF "_request" \in internals
       THEN /\ pc' = "connect"
            /\ exc' = NoExc
       ELSE /\ pc' = "handler"
            /\ exc' = [cls |-> "AttributeError", msg |-> "m"]
    /\ UNCHANGED <<events, bat, internals, debug, pair, callback_func, lastOp, raised>>

\* Variant of Connect: a failure to connect is swallowed and the session
\* goes on with the client as it is.
ConnectFailureIgnored ==
    /\ pc = "connect"
    /\ \E o \in Outcomes :
        /\ Outcome(o)
        /\ calls' = Append(calls, Call("connect", 0, o))
        /\ connected' = (o = NoExc)
        /\ pc' = IF pair THEN "pair" ELSE "loop"
        /\ exc' = exc
    /\ UNCHANGED <<bat, internals, debug, pair, callback_func, i, paired,
                   subs, written, delivered, reads, lastOp, raised>>

\* bulk_send, line 272-274: BleakClient.__aenter__ connects.  When it
\* fails the with block is not entered and __aexit__ does not run.
Connect ==
    /\ pc = "connect"
    /\ \E o \in Outcomes :
        /\ Outcome(o)
        /\ calls' = Append(calls, Call("connect", 0, o))
        /\ IF o = NoExc
           THEN /\ connected' = TRUE
                /\ pc' = IF pair THEN "pair" ELSE "loop"
                /\ exc' = exc
           ELSE /\ connected' = FALSE
                /\ pc' = "handler"
                /\ exc' = o
    /\ UNCHANGED <<bat, internals, debug, pair, callback_func, i, paired,
                   subs, written, delivered, reads, lastOp, raised>>

\* Variant of Pair: a failure of the pair operation is swallowed and the
\* session goes on to the commands.
PairFailureIgnored ==
    /\ pc = "pair"
    /\ \E o \in Outcomes :
        /\ Outcome(o)
        /\ calls' = Append(calls, Call("pair", 0, o))
        /\ paired' = (o = NoExc)
        /\ pc' = "loop"
        /\ exc' = NoExc
    /\ UNCHANGED <<bat, internals, debug, pair, callback_func, i, connected,
                   subs, written, delivered, reads, lastOp, raised>>

\* bulk_send, line 275-277
Pair ==
    /\ pc = "pair"
    /\ \E o \in Outcomes :
        /\ Outcome(o)
        /\ calls' = Append(calls, Call("pair", 0, o))
        /\ paired' = (o = NoExc)
        /\ pc' = IF o = NoExc THEN "loop" ELSE "aexit"
        /\ exc' = o
    /\ UNCHANGED <<bat, internals, debug, pair, callback_func, i, connected,
                   subs, written, delivered, reads, lastOp, raised>>

\* Variant of NextCommand: callback_func is set for the first command and
\* kept for the following ones.
NextCommandKeepsParser ==
    /\ pc = "loop"
    /\ IF i < NumCommands
       THEN /\ i' = i + 1
            /\ callback_func' = IF i = 0 THEN Commands[1].parser
                                ELSE callback_func
            /\ pc' = "start_notify"
       ELSE /\ pc' = "aexit"
            /\ UNCHANGED <<i, callback_func>>
    /\ UNCHANGED <<bat, internals, debug, pair, exc, connected, paired, subs,
                   written, events, calls, delivered, reads, lastOp, raised>>

\* Variant of NextCommand: commands_parsers is iterated from its last item
\* to its first.
NextCommandReversed ==
    /\ pc = "loop"
    /\ IF i # 1
       THEN /\ i' = IF i = 0 THEN NumCommands ELSE i - 1
            /\ callback_func' = Commands[i'].parser
            /\ pc' = "start_notify"
       ELSE /\ pc' = "aexit"
            /\ UNCHANGED <<i, callback_func>>
    /\ UNCHANGED <<bat, internals, debug, pair, exc, connected, paired, subs,
                   written, events, calls, delivered, reads, lastOp, raised>>

\* bulk_send, line 279-281: the next item of commands_parsers, or the end
\* of the with block
NextCommand ==
    /\ pc = "loop"
    /\ IF i < NumCommands
       THEN /\ i' = i + 1
            /\ callback_func' = Commands[i + 1].parser
            /\ pc' = "start_notify"
       ELSE /\ pc' = "aexit"
            /\ UNCHANGED <<i, callback_func>>
    /\ UNCHANGED <<bat, internals, debug, pair, exc, connected, paired, subs,
                   written, events, calls, delivered, reads, lastOp, raised>>

\* Variant of StartNotify: a failure to subscribe is swallowed and the
\* command is written all the same.
StartNotifyFailureIgnored ==
    /\ pc = "start_notify"
    /\ \E o \in Outcomes :
        /\ Outcome(o)
        /\ calls' = Append(calls, Call("start_notify", i, o))
        /\ subs' = IF o = NoExc THEN subs + 1 ELSE subs
        /\ pc' = "write"
        /\ exc' = NoExc
    /\ UNCHANGED <<bat, internals, debug, pair, callback_func, i, connected,
                   paired, written, delivered, reads, lastOp,
                   raised>>

\* bulk_send, line 283
StartNotify ==
    /\ pc = "start_notify"
    /\ \E o \in Outcomes :
        /\ Outcome(o)
        /\ calls' = Append(calls, Call("start_notify", i, o))
        /\ subs' = IF o = NoExc THEN subs + 1 ELSE subs
        /\ pc' = IF o = NoExc THEN "write" ELSE "aexit"
        /\ exc' = o
    /\ UNCHANGED <<bat, internals, debug, pair, callback_func, i, connected,
                   paired, written, delivered, reads, lastOp,
                   raised>>

\* bulk_send, line 285-287
WriteGattChar ==
    /\ pc = "write"
    /\ \E o \in Outcomes :
        /\ Outcome(o)
        /\ calls' = Append(calls, Call("write_gatt_char", i, o))
        /\ written' = IF o = NoExc THEN written \cup {i} ELSE written
        /\ pc' = IF o = NoExc THEN "sleep" ELSE "aexit"
        /\ exc' = o
    /\ UNCHANGED <<bat, internals, debug, pair, callback_func, i, connected,
                   paired, subs, delivered, reads, lastOp, raised>>

\* positions in delivered of the notifications forwarded during command n
DeliveredNow(n) == {k \in DOMAIN delivered : delivered[k].during = n}

\* Variant of Sleep: a window in which nothing was delivered ends the
\* session with a timeout instead of going on to stop_notify.
SleepAbortsOnSilence ==
    /\ pc = "sleep"
    /\ \E o \in {NoExc, Cancelled} :
        /\ Outcome(o)
        /\ calls' = Append(calls, Call("sleep", i, o))
        /\ IF o = NoExc /\ DeliveredNow(i) = {}
           THEN /\ pc' = "aexit"
                /\ exc' = [cls |-> "TimeoutError", msg |-> ""]
           ELSE /\ pc' = IF o = NoExc THEN "stop_notify" ELSE "aexit"
                /\ exc' = o
    /\ UNCHANGED <<bat, internals, debug, pair, callback_func, i, connected,
                   paired, subs, written, delivered, reads, lastOp,
                   raised>>

\* Variant of Sleep: the wait ends when a notification has arrived in the
\* window (or the task is cancelled), not when the window has elapsed.
SleepUntilNotified ==
    /\ pc = "sleep"
    /\ \E o \in {NoExc, Cancelled} :
        /\ o = NoExc => DeliveredNow(i) # {}
        /\ Outcome(o)
        /\ calls' = Append(calls, Call("sleep", i, o))
        /\ pc' = IF o = NoExc THEN "stop_notify" ELSE "aexit"
        /\ exc' = o
    /\ UNCHANGED <<bat, internals, debug, pair, callback_func, i, connected,
                   paired, subs, written, delivered, reads, lastOp,
                   raised>>

\* bulk_send, line 288: asyncio.sleep(1.0) returns after the window, or the
\* task is cancelled while it sleeps
Sleep ==
    /\ pc = "sleep"
    /\ \E o \in {NoExc, Cancelled} :
        /\ Outcome(o)
        /\ calls' = Append(calls, Call("sleep", i, o))
        /\ pc' = IF o = NoExc THEN "stop_notify" ELSE "aexit"
        /\ exc' = o
    /\ UNCHANGED <<bat, internals, debug, pair, callback_func, i, connected,
                   paired, subs, written, delivered, reads, lastOp,
                   raised>>

\* Variant of StopNotify: the handler is never deregistered.
StopNotifyOmitted ==
    /\ pc = "stop_notify"
    /\ pc' = "loop"
    /\ UNCHANGED <<bat, internals, debug, pair, session, events,
                   reads, lastOp, raised>>

\* Variant of StopNotify: the handler is deregistered only when a
\* notification arrived during the window.
StopNotifyOnlyIfNotified ==
    /\ pc = "stop_notify"
    /\ IF DeliveredNow(i) = {}
       THEN /\ pc' = "loop"
            /\ UNCHANGED <<calls, subs, exc, events>>
       ELSE \E o \in Outcomes :
               /\ Outcome(o)
               /\ calls' = Append(calls, Call("stop_notify", i, o))
               /\ subs' = IF o = NoExc THEN subs - 1 ELSE subs
               /\ pc' = IF o = NoExc THEN "loop" ELSE "aexit"
               /\ exc' = o
    /\ UNCHANGED <<bat, internals, debug, pair, callback_func, i, connected,
                   paired, written, delivered, reads, lastOp,
                   raised>>

\* bulk_send, line 291
StopNotify ==
    /\ pc = "stop_notify"
    /\ \E o \in Outcomes :
        /\ Outcome(o)
        /\ calls' = Append(calls, Call("stop_notify", i, o))
        /\ subs' = IF o = NoExc THEN subs - 1 ELSE subs
        /\ pc' = IF o = NoExc THEN "loop" ELSE "aexit"
        /\ exc' = o
    /\ UNCHANGED <<bat, internals, debug, pair, callback_func, i, connected,
                   paired, written, delivered, reads, lastOp,
                   raised>>

\* Request._data_callback (lines 487-493), run by the transport for a
\* notification the device sends in answer to command c while bulk_send is
\* suspended with a subscription active.  The data goes to whatever
\* callback_func is at that moment.  An exception of the parser ends the
\* callback's task; it does not reach bulk_send.  Deliveries are taken
\* while bulk_send sleeps in the window: during the awaits of
\* write_gatt_char and stop_notify the subscription and callback_func are
\* the same, so a delivery there has the same effect.
data_callback(c, data) ==
    /\ bat' = ApplyParser(callback_func, bat, data).bat
    /\ delivered' = Append(delivered,
                       [to |-> callback_func, cmd |-> c, during |-> i,
                        data |-> data,
                        exc |-> ApplyParser(callback_func, bat, data).exc])

Notify ==
    /\ pc = "sleep"
    /\ connected
    /\ subs > 0
    /\ \E c \in written :
        /\ events < MaxEvents
        /\ events' = events + 1
        /\ \E data \in DeviceResponses(c) : data_callback(c, data)
    /\ UNCHANGED <<internals, debug, pair, callback_func, pc, i, exc,
                   connected, paired, subs, written, calls, reads, lastOp,
                   raised>>

\* Variant of AExit: the connection is released on the normal path only.
AExitOnlyOnSuccess ==
    /\ pc = "aexit"
    /\ IF exc = NoExc
       THEN \E o \in Outcomes :
               /\ Outcome(o)
               /\ calls' = Append(calls, Call("disconnect", 0, o))
               /\ IF o = NoExc
                  THEN /\ connected' = FALSE
                       /\ subs' = 0
                       /\ exc' = exc
                       /\ pc' = "after_with"
                  ELSE /\ UNCHANGED <<connected, subs>>
                       /\ exc' = o
                       /\ pc' = "handler"
       ELSE /\ pc' = "handler"
            /\ UNCHANGED <<calls, connected, subs, exc, events>>
    /\ UNCHANGED <<bat, internals, debug, pair, callback_func, i, paired,
                   written, delivered, reads, lastOp, raised>>

\* bulk_send, line 272-274: leaving the with block, normally or with an
\* exception, runs BleakClient.__aexit__, which disconnects.
AExit ==
    /\ pc = "aexit"
    /\ \E o \in Outcomes :
        /\ Outcome(o)
        /\ calls' = Append(calls, Call("disconnect", 0, o))
        /\ IF o = NoExc
           THEN /\ connected' = FALSE
                /\ subs' = 0
                /\ exc' = exc
                /\ pc' = IF exc = NoExc THEN "after_with" ELSE "handler"
           ELSE /\ UNCHANGED <<connected, subs>>
                /\ exc' = o
                /\ pc' = "handler"
    /\ UNCHANGED <<bat, internals, debug, pair, callback_func, i, paired,
                   written, delivered, reads, lastOp, raised>>

\* bulk_send, line 293-295: client.unpair() is called without await; the
\* coroutine object is dropped and the transport's unpair never runs.
AfterWith ==
    /\ pc = "after_with"
    /\ pc' = "disconnect"
    /\ UNCHANGED <<events, bat, internals, debug, pair, session, reads, lastOp,
                   raised>>

\* bulk_send, line 296
Disconnect ==
    /\ pc = "disconnect"
    /\ \E o \in Outcomes :
        /\ Outcome(o)
        /\ calls' = Append(calls, Call("disconnect", 0, o))
        /\ exc' = o
        /\ pc' = "handler"
    /\ UNCHANGED <<bat, internals, debug, pair, callback_func, i, connected,
                   paired, subs, written, delivered, reads, lastOp,
                   raised>>

\* read_bms, line 413-427: the except clauses.  CancelledError is not an
\* Exception and passes through.  Each clause reads self._debug after it
\* has stored the error.  asyncio.run has closed the loop and the client
\* object is gone; calls and delivered keep the history of the read until
\* the next public operation.
ErrorCodeOf(cls) ==
    IF cls = "BleakError" THEN ERROR_BLEAK
    ELSE IF cls = "TimeoutError" THEN ERROR_TIMEOUT
    ELSE ERROR_GENERIC

ErrorMessageOf(e) ==
    IF e.cls \in {"BleakError", "TimeoutError"}
    THEN e.cls \o ": " \o e.msg
    ELSE e.msg

Handler ==
    /\ pc = "handler"
    /\ pc' = "idle"
    /\ lastOp' = "read_bms"
    /\ exc' = NoExc
    /\ IF exc = NoExc
       THEN /\ raised' = "none"
            /\ bat' = bat
       ELSE IF exc.cls = "CancelledError"
       THEN /\ raised' = "CancelledError"
            /\ bat' = bat
       ELSE /\ bat' = [bat EXCEPT !.error_code = ErrorCodeOf(exc.cls),
                                  !.error_message = ErrorMessageOf(exc)]
            /\ raised' = IF "_debug" \notin internals THEN "AttributeError"
                         ELSE IF debug THEN exc.cls
                         ELSE "none"
    /\ i' = 0
    /\ connected' = FALSE
    /\ paired' = FALSE
    /\ subs' = 0
    /\ written' = {}
    /\ UNCHANGED <<events, internals, debug, pair, callback_func, calls, delivered,
                   reads>>

\* BatteryInfo.get_json, line 486-493: the three del statements act on
\* self.__dict__ itself; a missing key raises KeyError.
GetJson ==
    /\ pc = "idle"
    /\ lastOp' = "get_json"
    /\ IF "_logger" \notin internals
       THEN /\ raised' = "KeyError"
            /\ internals' = internals
       ELSE IF "_request" \notin internals
       THEN /\ raised' = "KeyError"
            /\ internals' = internals \ {"_logger"}
       ELSE IF "_debug" \notin internals
       THEN /\ raised' = "KeyError"
            /\ internals' = internals \ {"_logger", "_request"}
       ELSE /\ raised' = "none"
            /\ internals' = {}
    /\ calls' = <<>>
    /\ delivered' = <<>>
    /\ UNCHANGED <<bat, debug, pair, pc, callback_func, i, exc, connected,
                   paired, subs, written, events, reads>>

\* BatteryInfo.set_debug, line 889
SetDebug ==
    /\ pc = "idle"
    /\ \E d \in BOOLEAN :
        /\ debug' = d
        /\ internals' = internals \cup {"_debug"}
    /\ lastOp' = "set_debug"
    /\ raised' = "none"
    /\ calls' = <<>>
    /\ delivered' = <<>>
    /\ UNCHANGED <<bat, pair, pc, callback_func, i, exc, connected, paired,
                   subs, written, events, reads>>

Next ==
    \/ ReadBms
    \/ Connect
    \/ Pair
    \/ NextCommand
    \/ StartNotify
    \/ WriteGattChar
    \/ Sleep
    \/ StopNotify
    \/ Notify
    \/ AExit
    \/ AfterWith
    \/ Disconnect
    \/ Handler
    \/ GetJson
    \/ SetDebug

Spec == Init /\ [][Next]_vars

\* A read in progress goes on: every awaited transport call returns or
\* raises, the sleep ends, and the interpreter runs the steps between the
\* awaits.  At each position exactly one of these steps is enabled.
\* Nothing is assumed of the device (Notify) or of the caller (ReadBms,
\* GetJson, SetDebug).
ReadProgress ==
    \/ Connect
    \/ Pair
    \/ NextCommand
    \/ StartNotify
    \/ WriteGattChar
    \/ Sleep
    \/ StopNotify
    \/ AExit
    \/ AfterWith
    \/ Disconnect
    \/ Handler

\* the caller reads, and does nothing else between the reads
LiveNext ==
    \/ ReadBms
    \/ ReadProgress
    \/ Notify

LiveSpec == Init /\ [][LiveNext]_vars /\ WF_vars(ReadProgress)

\* ------------------------------------------------------------------------
\* The decorated parsers called on their own
\* ------------------------------------------------------------------------
\* parse_version and parse_battery_info are public methods; each call runs
\* the checksum wrapper and then the parser body on the buffer it is given.
\* Under ParserSpec a new BatteryInfo receives such calls directly;
\* delivered then lists the buffers the parsers were called with (cmd and
\* during 0: no session).

\* s with bit b (0..7) of its k-th byte flipped
FlipBit(s, k, b) ==
    [s EXCEPT ![k] = IF (s[k] \div Pow(2, b)) % 2 = 1
                     THEN s[k] - Pow(2, b) ELSE s[k] + Pow(2, b)]

\* s with its trailing byte replaced by t
WithTrailer(s, t) == [s EXCEPT ![Len(s)] = t]

\* A version response: 8 header bytes, firmware version, date of
\* manufacture, the checksum trailer (19 bytes).
VersionResponse(major, minor, patch, year, month, day) ==
    WithChecksum(
        Zeros(8) \o ToBytes(major, 2) \o ToBytes(minor, 2)
        \o ToBytes(patch, 2) \o ToBytes(year, 2) \o <<month, day>>)

\* version responses over one, two, three and five digit components, with
\* and without a high byte, months and days below and above 10, and the
\* response cut to the 18 bytes of its fields and to one byte less
VersionResponses ==
    { VersionResponse(0, 0, 0, 0, 0, 0),
      VersionResponse(10, 100, 1000, 1999, 9, 31),
      VersionResponse(258, 9, 65535, 2024, 12, 1),
      VersionResponse(2, 256, 7, 2030, 10, 10),
      Truncate(VersionOk, 18),
      Truncate(VersionOk, 17) }

\* the command templates of pq_commands as frames
CommandFrames == {GET_VERSION, GET_BATTERY_INFO, SERIAL_NUMBER}

\* a command frame coming back as a notification, intact or with one bit
\* flipped on the way
Echoes ==
    CommandFrames
    \cup {FlipBit(f, k, b) : f \in CommandFrames, k \in 1..8, b \in 0..7}

\* battery-info responses over the cases of get_battery_status: current
\* negative, zero, rounding to zero and positive; state of charge around
\* 100; operating state 2 and 4
StatusResponses ==
    {BatteryResponse(FourCells, cur, soc, st, 0) :
        cur \in {-5000, 0, 4, 1500}, soc \in {99, 100, 101}, st \in {2, 4}}

\* battery-info responses over the 16 values of the high half of byte 68
\* (hex digit 6 of heat), the low half (digit 7) 0 or 2
HeatResponses ==
    {BatteryResponse(FourCells, -2500, 85, 2, 16 * d + l) :
        d \in 0..15, l \in {0, 2}}

\* the buffers a parser is called with: the responses to its command
\* (for parse_version also the echoes, for parse_battery_info also a
\* version response and a response of 104 bytes)
ParserInputs(parser) ==
    IF parser = "parse_version"
    THEN DeviceResponses(1) \cup {WithTrailer(VersionOk, 65)} \cup Echoes
         \cup VersionResponses
    ELSE DeviceResponses(2) \cup {Truncate(BatOk, 104), VersionOk}
         \cup StatusResponses \cup HeatResponses

\* one call parser(data) on the object
ParseCall(parser, data) ==
    /\ bat' = ApplyParser(parser, bat, data).bat
    /\ delivered' = Append(delivered,
                       [to |-> parser, cmd |-> 0, during |-> 0,
                        data |-> data,
                        exc |-> ApplyParser(parser, bat, data).exc])
    /\ raised' = ApplyParser(parser, bat, data).exc
    /\ lastOp' = parser

ParseVersion ==
    /\ pc = "idle"
    /\ Len(delivered) < MaxParses
    /\ \E data \in ParserInputs("parse_version") :
          ParseCall("parse_version", data)
    /\ UNCHANGED <<internals, debug, pair, callback_func, pc, i, exc,
                   connected, paired, subs, written, events, calls, reads>>

ParseBatteryInfo ==
    /\ pc = "idle"
    /\ Len(delivered) < MaxParses
    /\ \E data \in ParserInputs("parse_battery_info") :
          ParseCall("parse_battery_info", data)
    /\ UNCHANGED <<internals, debug, pair, callback_func, pc, i, exc,
                   connected, paired, subs, written, events, calls, reads>>

ParserInit == Init /\ ~pair

ParserNext ==
    \/ ParseVersion
    \/ ParseBatteryInfo

ParserSpec == ParserInit /\ [][ParserNext]_vars

\* ------------------------------------------------------------------------
\* Vocabulary of the properties
\* ------------------------------------------------------------------------
\* the transport operation op was invoked for command c and returned
CallOk(op, c) ==
    \E k \in DOMAIN calls :
        calls[k].op = op /\ calls[k].cmd = c /\ calls[k].ok

\* the transport operation op was invoked (it returned or raised)
Invoked(op) == \E k \in DOMAIN calls : calls[k].op = op

\* every call of the read so far returned: no failure, no cancellation
AllCallsOk == \A k \in DOMAIN calls : calls[k].ok

\* the transport operation op was invoked and raised (or was cancelled)
Failed(op) == \E k \in DOMAIN calls : calls[k].op = op /\ ~calls[k].ok

\* no call of the read but those of op raised
OnlyFailed(op) == \A k \in DOMAIN calls : ~calls[k].ok => calls[k].op = op

\* bulk_send is over (returned or raised) and read_bms has not been
\* called again
BulkSendOver == pc = "handler" \/ (pc = "idle" /\ lastOp = "read_bms")

\* read_bms has returned or raised and nothing was called since
ReadOver == pc = "idle" /\ lastOp = "read_bms"

\* the trailing byte of a response is the additive sum of the others
ChecksumOk(data) ==
    Len(data) > 0
    /\ data[Len(data)] = crc_sum(SubSeq(data, 1, Len(data) - 1))

\* the last buffer a parser was called with, its parser and how it ended
Last == delivered[Len(delivered)]

\* parse_battery_info ran to its end on the last buffer
BatteryInfoDecoded ==
    /\ Len(delivered) > 0
    /\ Last.to = "parse_battery_info"
    /\ Last.exc = "none"

\* this step is one call of a parser: Last' is the call
ParserCalled == Len(delivered') = Len(delivered) + 1

\* the buffer with its trailing byte replaced by the correct checksum
WithCorrectTrailer(data) == WithChecksum(SubSeq(data, 1, Len(data) - 1))

\* the fields a parser decodes: all but the error fields
DecodedFields == DOMAIN InitBat \ {"error_code", "error_message", "error"}

\* minimum length of the response a parser needs (spec 4.2)
MinLength(parser) == IF parser = "parse_battery_info" THEN 100 + 4 ELSE 10 + 8

\* ------------------------------------------------------------------------
\* C1 - once the connection is open, disconnect is invoked before
\* bulk_send returns, on every exit path (normal end, pair failure,
\* start_notify / write / stop_notify failure, cancellation).
\* ------------------------------------------------------------------------
C1_DisconnectOnEveryExit ==
    (BulkSendOver /\ CallOk("connect", 0)) => Invoked("disconnect")

\* a write failed or was cancelled, and the connection was still released
C1_Witness ==
    /\ pc = "handler"
    /\ CallOk("connect", 0)
    /\ \E k \in DOMAIN calls :
          calls[k].op = "write_gatt_char" /\ ~calls[k].ok
    /\ exc # NoExc
    /\ Invoked("disconnect")

\* ------------------------------------------------------------------------
\* C2 - when pairing was requested and pair succeeded, the transport's
\* unpair is carried out before bulk_send returns, on every exit path.
\* ------------------------------------------------------------------------
C2_UnpairOnEveryExit ==
    (BulkSendOver /\ CallOk("pair", 0)) => Invoked("unpair")

\* ------------------------------------------------------------------------
\* C3 - a notification the device sends in answer to command N is never
\* passed to the parser registered for another command, whatever the delay
\* of its delivery.
\* ------------------------------------------------------------------------
C3_NoMisattribution ==
    \A k \in DOMAIN delivered :
        delivered[k].to = Commands[delivered[k].cmd].parser

\* ------------------------------------------------------------------------
\* C4 - if no notification for GET_BATTERY_INFO arrives within its window,
\* read_bms still disconnects, returns, and reports ERROR_TIMEOUT.
\* ------------------------------------------------------------------------
C4_SilentBatteryInfoIsTimeout ==
    (/\ ReadOver
     /\ CallOk("sleep", 2)
     /\ \A k \in DOMAIN delivered : delivered[k].cmd # 2)
    => (/\ Invoked("disconnect")
        /\ raised = "none"
        /\ bat.error_code = ERROR_TIMEOUT)

\* ------------------------------------------------------------------------
\* C5 - a response with a wrong trailing checksum byte decoded during
\* read_bms leaves error_code = ERROR_CHECKSUM after the read (the exit code
\* of the CLI), provided no connection-level failure occurs.
\* ------------------------------------------------------------------------
C5_ChecksumMismatchSetsErrorCode ==
    (/\ ReadOver
     /\ AllCallsOk
     /\ \E k \in DOMAIN delivered : ~ChecksumOk(delivered[k].data))
    => bat.error_code = ERROR_CHECKSUM

\* ------------------------------------------------------------------------
\* C6 - a response shorter than the minimum of its command (104 bytes for
\* battery info, 18 for version) gives an error outcome, never a read that
\* ends with error_code 0 after the parser has run on it.
\* ------------------------------------------------------------------------
C6_ShortResponseIsAnError ==
    (/\ ReadOver
     /\ \E k \in DOMAIN delivered :
           Len(delivered[k].data) < MinLength(delivered[k].to))
    => bat.error_code # 0

\* ------------------------------------------------------------------------
\* C7 - one outstanding command at a time: command N+1 is not subscribed
\* and not written until the window of command N has elapsed and its
\* handler was deregistered with stop_notify; never more than one active
\* subscription.
\* ------------------------------------------------------------------------
C7_OneOutstandingCommand ==
    /\ subs <= 1
    /\ \A k \in DOMAIN calls :
          (calls[k].op \in {"start_notify", "write_gatt_char"}
           /\ calls[k].cmd > 1)
          => \E j \in 1..(k - 1) :
                /\ calls[j] = [op |-> "stop_notify",
                               cmd |-> calls[k].cmd - 1, ok |-> TRUE]
                /\ \E h \in 1..(j - 1) :
                      calls[h] = [op |-> "sleep",
                                  cmd |-> calls[k].cmd - 1, ok |-> TRUE]

\* the second command has been written with its subscription active
C7_Witness ==
    /\ pc = "sleep"
    /\ i = 2
    /\ subs = 1
    /\ CallOk("write_gatt_char", 2)

\* ------------------------------------------------------------------------
\* C8 - a window without notification does not abort the session: when
\* nothing arrived during the window of command 1 and no transport call
\* failed, command 2 was subscribed and written, and a notification that
\* arrived for command 2 is decoded into the result.
\* ------------------------------------------------------------------------
C8_SilentWindowDoesNotAbort ==
    (/\ pc = "handler"
     /\ AllCallsOk
     /\ CallOk("sleep", 1)
     /\ DeliveredNow(1) = {})
    => (/\ CallOk("start_notify", 2)
        /\ CallOk("write_gatt_char", 2)
        /\ \A k \in DOMAIN delivered :
              (delivered[k].cmd = 2 /\ k = Len(delivered))
              => (/\ delivered[k].to = "parse_battery_info"
                  /\ bat.packVoltage =
                        FromBytesRev(Slice(delivered[k].data, 8, 12))
                  /\ bat.voltage =
                        FromBytesRev(Slice(delivered[k].data, 12, 16))))

\* command 1 got no answer, command 2 got one and it is in the result
C8_Witness ==
    /\ pc = "handler"
    /\ AllCallsOk
    /\ DeliveredNow(1) = {}
    /\ Len(delivered) = 1
    /\ delivered[1].cmd = 2
    /\ delivered[1].data = BatOk
    /\ bat.packVoltage = 13280
    /\ bat.SOC = 85

\* ------------------------------------------------------------------------
\* C9 - with debug mode disabled the except clauses of read_bms classify
\* the failure: BleakError -> 4, TimeoutError -> 2, any other exception
\* -> 1, and error_message is a non-empty description in each case.
\* ------------------------------------------------------------------------
C9_FailureClassified ==
    [][(/\ Handler
        /\ exc.cls \notin {"none", "CancelledError"}
        /\ "_debug" \in internals
        /\ ~debug)
       => (/\ bat'.error_code =
                 (IF exc.cls = "BleakError" THEN 4
                  ELSE IF exc.cls = "TimeoutError" THEN 2 ELSE 1)
           /\ bat'.error_message # "None"
           /\ bat'.error_message # "")]_vars

\* ------------------------------------------------------------------------
\* C10 - with debug mode disabled (the default) read_bms raises nothing
\* to its caller, after any sequence of read_bms, get_json and
\* set_debug(False); cancellation of the whole read aside.
\* ------------------------------------------------------------------------
C10_ReadBmsNeverRaises ==
    (ReadOver /\ ~debug) => raised \in {"none", "CancelledError"}

\* ------------------------------------------------------------------------
\* C11 - get_json can be called again on the same BatteryInfo: no call of
\* get_json fails, the second and later ones included.
\* ------------------------------------------------------------------------
C11_GetJsonRepeatable ==
    (pc = "idle" /\ lastOp = "get_json") => raised = "none"

\* ------------------------------------------------------------------------
\* C12 - the outcome is fresh per read: after a read_bms in which connect,
\* pair, every write and every other transport call returned and every
\* decoded response had a correct checksum, error_code is 0 and
\* error_message is None, whatever an earlier read on the object ended with.
\* ------------------------------------------------------------------------
C12_OutcomeFreshPerRead ==
    (/\ ReadOver
     /\ raised = "none"
     /\ CallOk("connect", 0)
     /\ CallOk("write_gatt_char", 1)
     /\ CallOk("write_gatt_char", 2)
     /\ AllCallsOk
     /\ \A k \in DOMAIN delivered : ChecksumOk(delivered[k].data))
    => (bat.error_code = 0 /\ bat.error_message = "None")

\* ------------------------------------------------------------------------
\* C13 - after parse_battery_info has decoded a response, batteryPack holds
\* cell c (1..16) exactly when the c-th two-byte reading of that response
\* is nonzero, with that reading as its value, whatever cells an earlier
\* response decoded on the same object had.
\* ------------------------------------------------------------------------
C13_BatteryPackIsThatOfTheResponse ==
    (/\ Len(delivered) > 0
     /\ delivered[Len(delivered)].to = "parse_battery_info"
     /\ delivered[Len(delivered)].exc = "none")
    => \A c \in 1..16 :
          bat.batteryPack[c] =
              CellRaw(Slice(delivered[Len(delivered)].data, 16, 48), c)

\* ------------------------------------------------------------------------
\* C14 - the battery status is "Full Charge" whenever SOC >= 100 or the
\* operating state is 4, for negative, zero and positive current alike;
\* otherwise it is "Standby" for current 0, "Charging" for current > 0 and
\* "Discharging" for current < 0.
\* ------------------------------------------------------------------------
C14_FullChargeAlwaysWins ==
    BatteryInfoDecoded =>
        LET full == bat.SOC >= 100 \/ bat.batteryState = 4
        IN /\ full => bat.battery_status = "Full Charge"
           /\ (~full /\ bat.current = 0) => bat.battery_status = "Standby"
           /\ (~full /\ bat.current > 0) => bat.battery_status = "Charging"
           /\ (~full /\ bat.current < 0)
                 => bat.battery_status = "Discharging"

\* a pack discharging 5 A at SOC 100 in operating state 2 is Full Charge
C14_Witness ==
    /\ BatteryInfoDecoded
    /\ bat.current = -500
    /\ bat.SOC = 100
    /\ bat.batteryState = 2
    /\ bat.battery_status = "Full Charge"

\* ------------------------------------------------------------------------
\* C15 - for each of the 16 values of hex digit 6 of heat (the high half
\* of byte 68) parse_battery_info runs to its end and sets
\* dischargeSwitchState to 0 when the digit's value is >= 8, to 1 otherwise.
\* ------------------------------------------------------------------------
C15_SwitchForEveryHexDigit ==
    (/\ Len(delivered) > 0
     /\ Last.to = "parse_battery_info"
     /\ Last.data \in HeatResponses)
    => (/\ Last.exc = "none"
        /\ bat.dischargeSwitchState =
              (IF Last.data[69] \div 16 >= 8 THEN 0 ELSE 1))

\* ------------------------------------------------------------------------
\* C16 - every command frame (GET_VERSION, GET_BATTERY_INFO, SERIAL_NUMBER
\* after _create_command, and every frame a session has written) is 8
\* bytes 00 00 04 01 <cmd-id> 55 AA <checksum> whose last byte is crc_sum
\* of the first 7.
\* ------------------------------------------------------------------------
FrameWellFormed(f) ==
    /\ Len(f) = 8
    /\ SubSeq(f, 1, 4) = <<0, 0, 4, 1>>
    /\ f[6] = 85
    /\ f[7] = 170
    /\ f[8] = crc_sum(SubSeq(f, 1, 7))

\* the three commands of pq_commands give well-formed frames
TemplatesWellFormed ==
    \A name \in DOMAIN pq_commands :
        FrameWellFormed(create_command(pq_commands[name]))

WellFormedFrames == {f \in CommandFrames : FrameWellFormed(f)}

C16_CommandFramesWellFormed ==
    /\ TemplatesWellFormed
    /\ \A k \in DOMAIN calls :
          calls[k].op = "write_gatt_char"
          => Commands[calls[k].cmd].frame \in WellFormedFrames

\* a read that wrote both of its frames
C16_Witness ==
    /\ ReadOver
    /\ raised = "none"
    /\ CallOk("write_gatt_char", 1)
    /\ CallOk("write_gatt_char", 2)
    /\ Commands[2].frame = <<0, 0, 4, 1, 19, 85, 170, 23>>

\* ------------------------------------------------------------------------
\* C17 - the checksum check accepts each correctly checksummed command
\* template and rejects it once any single bit of its first 7 bytes is
\* flipped: the comparison holds before the flip and fails after it, and
\* the wrapper marks the mismatch only after it.
\* ------------------------------------------------------------------------
\* the command templates with one bit of the first 7 bytes flipped
PayloadFlips ==
    {FlipBit(f, k, b) : f \in CommandFrames, k \in 1..7, b \in 0..7}

C17_SingleBitFlipRejected ==
    [][ParserCalled =>
        /\ Last'.data \in CommandFrames
           => (/\ ChecksumOk(Last'.data)
               /\ bat'.error = bat.error
               /\ bat'.error_message = bat.error_message)
        /\ Last'.data \in PayloadFlips
           => (/\ ~ChecksumOk(Last'.data)
               /\ bat'.error = ERROR_CHECKSUM
               /\ bat'.error_message = "Error: checksum missmatch")
       ]_vars

\* GET_VERSION came back with the top bit of its command id flipped and
\* was marked
C17_Witness ==
    /\ Len(delivered) > 0
    /\ Last.data = <<0, 0, 4, 1, 150, 85, 170, 26>>
    /\ Last.data = FlipBit(GET_VERSION, 5, 7)
    /\ bat.error = ERROR_CHECKSUM

\* ------------------------------------------------------------------------
\* C18 - a checksum mismatch never prevents decoding: for every response
\* buffer (of the minimum length of its command) the parser runs on it and
\* the decoded fields are those decoded from the same buffer with a
\* correct trailing checksum byte.
\* ------------------------------------------------------------------------
C18_DecodedAsWithCorrectChecksum ==
    [][(/\ ParserCalled
        /\ Len(Last'.data) >= MinLength(Last'.to)
        /\ ~ChecksumOk(Last'.data))
       => LET good == ApplyParser(Last'.to, bat,
                                  WithCorrectTrailer(Last'.data))
          IN /\ Last'.exc = good.exc
             /\ \A x \in DecodedFields : bat'[x] = good.bat[x]
       ]_vars

\* C18 as amended - a checksum mismatch never prevents decoding: the
\* parser runs on the buffer, and every decoded field that does not take
\* in the buffer's last byte is as decoded from the same buffer with a
\* correct trailing byte: all fields of a battery-info buffer of 105 bytes
\* or more, and all fields but hardwareVersion of a version buffer of 19
\* bytes or more.
C18_DecodedApartFromTrailer ==
    [][(ParserCalled /\ ~ChecksumOk(Last'.data))
       => LET good == ApplyParser(Last'.to, bat,
                                  WithCorrectTrailer(Last'.data))
          IN /\ (Last'.to = "parse_battery_info" /\ Len(Last'.data) >= 105)
                => (/\ Last'.exc = good.exc
                    /\ \A x \in DecodedFields : bat'[x] = good.bat[x])
             /\ (Last'.to = "parse_version" /\ Len(Last'.data) >= 19)
                => (/\ Last'.exc = good.exc
                    /\ \A x \in DecodedFields \ {"hardwareVersion"} :
                          bat'[x] = good.bat[x])
       ]_vars

\* a battery-info response with a wrong trailing byte was decoded in full
C18_Witness ==
    /\ BatteryInfoDecoded
    /\ Last.data = Corrupt(BatOk)
    /\ bat.error = ERROR_CHECKSUM
    /\ bat.packVoltage = 13280
    /\ bat.SOC = 85
    /\ bat.dischargesAHCount = 345

\* ------------------------------------------------------------------------
\* C19 - one notification is consumed per command: of the buffers the
\* transport delivers while a command's subscription is active, at most
\* one is forwarded to the parser.
\* ------------------------------------------------------------------------
C19_AtMostOneForwardedPerCommand ==
    \A n \in 1..NumCommands : Cardinality(DeliveredNow(n)) <= 1

\* ------------------------------------------------------------------------
\* C20 - read_bms eventually returns (or raises) whenever every transport
\* call eventually returns or raises, also when the device never sends a
\* notification: the wait for a response ends with the window.
\* ------------------------------------------------------------------------
C20_ReadBmsReturns == (pc # "idle") ~> ReadOver

\* a read came to its end through both windows with the device silent
C20_Witness ==
    /\ ReadOver
    /\ raised = "none"
    /\ delivered = <<>>
    /\ CallOk("sleep", 1)
    /\ CallOk("sleep", 2)
    /\ Invoked("disconnect")

\* ------------------------------------------------------------------------
\* C21 - if pairing was requested and the pair operation fails (the read
\* not being cancelled, nothing else failing), no subscription and no
\* write is performed afterwards and the read ends with error_code 4.
\* ------------------------------------------------------------------------
C21_PairFailureEndsWithBleakCode ==
    (/\ ReadOver
     /\ raised # "CancelledError"
     /\ Failed("pair")
     /\ OnlyFailed("pair"))
    => (/\ ~Invoked("start_notify")
        /\ ~Invoked("write_gatt_char")
        /\ bat.error_code = ERROR_BLEAK)

\* C21 as amended - a failure of the pair operation is terminal: no
\* subscription and no write is performed afterwards, and when nothing
\* else fails and the read is not cancelled it ends with the error code of
\* the exception the pair raised: 4 for a BleakError, 2 for a
\* TimeoutError, 1 for any other exception.
C21_PairFailureIsTerminal ==
    /\ [](Failed("pair")
          => (~Invoked("start_notify") /\ ~Invoked("write_gatt_char")))
    /\ [][(/\ Handler
           /\ Failed("pair")
           /\ OnlyFailed("pair")
           /\ exc.cls # "CancelledError")
          => bat'.error_code =
                (IF exc.cls = "BleakError" THEN 4
                 ELSE IF exc.cls = "TimeoutError" THEN 2 ELSE 1)]_vars

\* the pair raised a BleakError, the connection was released and the read
\* ended with code 4
C21_Witness ==
    /\ ReadOver
    /\ Failed("pair")
    /\ Len(calls) = 3
    /\ calls[3] = [op |-> "disconnect", cmd |-> 0, ok |-> TRUE]
    /\ bat.error_code = ERROR_BLEAK
    /\ bat.error_message = "BleakError: m"

\* ------------------------------------------------------------------------
\* C22 - if opening the connection fails the read is terminal: the connect
\* is the only transport call of the read, no parser is invoked, every
\* step of the read leaves every decoded field as it was, and (the read
\* not being cancelled) the read ends with a nonzero error_code, 4 for a
\* BleakError and 2 for a TimeoutError.
\* ------------------------------------------------------------------------
C22_ConnectFailureIsTerminal ==
    /\ [](Failed("connect") => (Len(calls) = 1 /\ delivered = <<>>))
    /\ [][(pc' = "connect" \/ Failed("connect")')
          => \A f \in DecodedFields : bat'[f] = bat[f]]_vars
    /\ [][(Handler /\ Failed("connect") /\ exc.cls # "CancelledError")
          => (/\ bat'.error_code # 0
              /\ exc.cls = "BleakError" => bat'.error_code = 4
              /\ exc.cls = "TimeoutError" => bat'.error_code = 2)]_vars

\* a second read whose connect timed out: code 2, and the version decoded
\* by the first read is still there
C22_Witness ==
    /\ ReadOver
    /\ reads = 2
    /\ calls = <<[op |-> "connect", cmd |-> 0, ok |-> FALSE]>>
    /\ bat.error_code = ERROR_TIMEOUT
    /\ bat.firmwareVersion # InitBat.firmwareVersion

\* ------------------------------------------------------------------------
\* C23 - with debug mode enabled an exception during read_bms is raised to
\* the caller instead of being caught and stored: the step that ends the
\* failing read raises the exception and leaves error_code and
\* error_message as they were.
\* ------------------------------------------------------------------------
C23_DebugRaisesInsteadOfStoring ==
    [][(/\ Handler
        /\ internals = Internals
        /\ debug
        /\ exc # NoExc)
       => (/\ raised' = exc.cls
           /\ bat'.error_code = bat.error_code
           /\ bat'.error_message = bat.error_message)]_vars

\* ------------------------------------------------------------------------
\* C24 - the commands are written in the order of commands_parsers, each
\* at most once per read and each exactly once in a read in which no call
\* fails: the n-th write of a read is that of the n-th command, a
\* GET_VERSION frame is written before a GET_BATTERY_INFO frame, and a
\* session that ran to its end without failure wrote both.
\* ------------------------------------------------------------------------
Writes == {k \in DOMAIN calls : calls[k].op = "write_gatt_char"}

C24_CommandsWrittenInOrder ==
    /\ \A k \in Writes :
          calls[k].cmd = Cardinality({j \in Writes : j <= k})
    /\ \A j, k \in Writes :
          j < k => /\ Commands[calls[j].cmd].frame = GET_VERSION
                   /\ Commands[calls[k].cmd].frame = GET_BATTERY_INFO
    /\ (BulkSendOver /\ AllCallsOk /\ Invoked("connect"))
       => Cardinality(Writes) = NumCommands

\* both frames have been written, the version frame first
C24_Witness ==
    /\ Cardinality(Writes) = 2
    /\ \E j, k \in Writes :
          /\ j < k
          /\ Commands[calls[j].cmd].frame = GET_VERSION
          /\ Commands[calls[k].cmd].frame = GET_BATTERY_INFO

\* ------------------------------------------------------------------------
\* C25 - for every version response of at least 18 bytes parse_version
\* sets firmwareVersion to "MAJOR.MINOR.PATCH", the decimal renderings of
\* the 16-bit little-endian values at response bytes 8-9, 10-11 and 12-13,
\* and manfactureDate to "YEAR-MONTH-DAY", YEAR the 16-bit little-endian
\* value at bytes 14-15, MONTH and DAY the bytes 16 and 17, none of them
\* padded.
\* ------------------------------------------------------------------------
\* the 16-bit little-endian value at the Python offset k of d
Le16(d, k) == d[k + 1] + 256 * d[k + 2]

C25_VersionAndDateStrings ==
    [][(/\ ParserCalled
        /\ Last'.to = "parse_version"
        /\ Len(Last'.data) >= 18)
       => LET d == Last'.data
          IN /\ bat'.firmwareVersion =
                    ToString(Le16(d, 8)) \o "." \o ToString(Le16(d, 10))
                    \o "." \o ToString(Le16(d, 12))
             /\ bat'.manfactureDate =
                    ToString(Le16(d, 14)) \o "-" \o ToString(d[17])
                    \o "-" \o ToString(d[18])]_vars

\* the response of the docstring: 1.4.0, made on 2023-5-15
C25_Witness ==
    /\ lastOp = "parse_version"
    /\ Len(delivered) = 1
    /\ Len(Last.data) >= 18
    /\ bat.firmwareVersion = "1.4.0"
    /\ bat.manfactureDate = "2023-5-15"

\* ------------------------------------------------------------------------
\* C26 - for every command the transport calls occur in the order
\* start_notify, write_gatt_char, wait, stop_notify: a write directly
\* follows the successful start_notify of its command, the wait the
\* successful write, stop_notify the completed wait; and once the write
\* succeeded and the window has elapsed stop_notify is called, whether or
\* not a notification arrived during the window.
\* ------------------------------------------------------------------------
\* the call before the k-th of the read was op for the same command, and
\* it returned
Preceded(k, op) ==
    /\ k > 1
    /\ calls[k - 1] = [op |-> op, cmd |-> calls[k].cmd, ok |-> TRUE]

C26_CallOrderPerCommand ==
    /\ \A k \in DOMAIN calls :
          /\ calls[k].op = "write_gatt_char" => Preceded(k, "start_notify")
          /\ calls[k].op = "sleep" => Preceded(k, "write_gatt_char")
          /\ calls[k].op = "stop_notify" => Preceded(k, "sleep")
    /\ \A c \in 1..NumCommands :
          (BulkSendOver /\ CallOk("write_gatt_char", c))
          => \/ \E k \in DOMAIN calls :
                   calls[k].op = "stop_notify" /\ calls[k].cmd = c
             \/ \E k \in DOMAIN calls :
                   calls[k] = [op |-> "sleep", cmd |-> c, ok |-> FALSE]

\* a finished session in which nothing arrived in the window of command 1,
\* a response arrived in that of command 2, and stop_notify was called for
\* both
C26_Witness ==
    /\ BulkSendOver
    /\ DeliveredNow(1) = {}
    /\ DeliveredNow(2) # {}
    /\ CallOk("stop_notify", 1)
    /\ CallOk("stop_notify", 2)

\* ------------------------------------------------------------------------
\* C27 - a notification delivered while the subscription of command N is
\* active is passed to the parser paired with command N: from before
\* start_notify until stop_notify has returned callback_func is that
\* parser and no step changes it.
\* ------------------------------------------------------------------------
InCommand == pc \in {"start_notify", "write", "sleep", "stop_notify"}

C27_NotificationGoesToParserOfCommand ==
    /\ [](/\ \A k \in DOMAIN delivered :
                /\ delivered[k].during \in 1..NumCommands
                /\ delivered[k].to = Commands[delivered[k].during].parser
          /\ InCommand => callback_func = Commands[i].parser)
    /\ [][InCommand => callback_func' = callback_func]_vars

\* one notification in each window of a read, the first passed to
\* parse_version and the second to parse_battery_info
C27_Witness ==
    /\ Len(delivered) = 2
    /\ delivered[1].during = 1
    /\ delivered[1].to = "parse_version"
    /\ delivered[2].during = 2
    /\ delivered[2].to = "parse_battery_info"

\* ------------------------------------------------------------------------
\* C28 - if start_notify, write_gatt_char or stop_notify fails for command
\* N the session aborts: the only transport call after it is the
\* disconnect of the connection, so no later command is subscribed or
\* written; no step from the failure on changes a field decoded from a
\* command before N; and (the read not being cancelled) read_bms ends
\* with a nonzero error_code.
\* ------------------------------------------------------------------------
CommandOps == {"start_notify", "write_gatt_char", "stop_notify"}

\* positions of the calls of CommandOps that failed
FailedCommandCalls ==
    {k \in DOMAIN calls : calls[k].op \in CommandOps /\ ~calls[k].ok}

\* the fields a parser assigns
FieldsOf(parser) ==
    IF parser = "parse_version"
    THEN {"firmwareVersion", "manfactureDate", "hardwareVersion"}
    ELSE DecodedFields \ {"firmwareVersion", "manfactureDate",
                          "hardwareVersion"}

\* the fields decoded from the commands before the n-th
FieldsBefore(n) == UNION {FieldsOf(Commands[m].parser) : m \in 1..(n - 1)}

C28_CommandFailureAborts ==
    /\ [](\A k \in FailedCommandCalls :
            \A j \in (k + 1)..Len(calls) :
                j = k + 1 /\ calls[j].op = "disconnect")
    /\ [][\A k \in FailedCommandCalls' :
            \A f \in FieldsBefore(calls'[k].cmd) : bat'[f] = bat[f]]_vars
    /\ [][(Handler /\ FailedCommandCalls # {} /\ exc.cls # "CancelledError")
          => bat'.error_code # 0]_vars

\* the write of command 2 failed after the version had been decoded from
\* the response to command 1: the read ended with an error code and the
\* version is still there
C28_Witness ==
    /\ ReadOver
    /\ \E k \in FailedCommandCalls :
          calls[k].op = "write_gatt_char" /\ calls[k].cmd = 2
    /\ DeliveredNow(1) # {}
    /\ bat.error_code # 0
    /\ bat.firmwareVersion = "1.4.0"

\* ------------------------------------------------------------------------
\* C29 - in bulk_send the connection is disconnected exactly once per
\* successfully opened connection, and no transport operation is invoked
\* on the client after it has been disconnected.
\* ------------------------------------------------------------------------
Disconnects == {k \in DOMAIN calls : calls[k].op = "disconnect"}

C29_DisconnectedExactlyOnce ==
    /\ (BulkSendOver /\ CallOk("connect", 0)) => Cardinality(Disconnects) = 1
    /\ \A k \in Disconnects : calls[k].ok => k = Len(calls)

\* ------------------------------------------------------------------------
\* C30 - the two decoders write disjoint parts of the object: a call of
\* parse_version changes nothing but firmwareVersion, manfactureDate and
\* hardwareVersion and the error fields, so every battery metric and
\* status field is as before; a call of parse_battery_info leaves the
\* three version fields as they were.
\* ------------------------------------------------------------------------
ErrorFields == {"error_code", "error_message", "error"}

C30_DecodersWriteDisjointFields ==
    [][ParserCalled
       => /\ Last'.to = "parse_version"
             => \A f \in DOMAIN InitBat
                          \ (FieldsOf("parse_version") \cup ErrorFields) :
                    bat'[f] = bat[f]
          /\ Last'.to = "parse_battery_info"
             => \A f \in FieldsOf("parse_version") : bat'[f] = bat[f]]_vars

\* a version response decoded in a second read, the battery metrics of the
\* first read still in place
C30_Witness ==
    /\ reads = 2
    /\ Len(delivered) = 1
    /\ Last.to = "parse_version"
    /\ Last.exc = "none"
    /\ bat.firmwareVersion = "1.4.0"
    /\ bat.packVoltage # NoneInt
    /\ bat.SOC # NoneInt

====
